---- MODULE Spec2Model ----
(***************************************************************************)
(* Repository-Analysis-v2: the analyze gateway (src/src/endpoints.py), the *)
(* Celery task store it polls, and the repository fetcher with its Redis   *)
(* cache (src/src/repo_manager.py).                                        *)
(*                                                                         *)
(* Conventions.  A Python str is a sequence of one-character strings where *)
(* the code looks inside it (URLs) and an opaque tuple of strings where it *)
(* does not (file bodies, error markers).  A Python dict whose insertion   *)
(* order matters (the files mapping) is a sequence of <<key, value>> pairs *)
(* with distinct keys.  OpenTelemetry calls (tracer.add_event, spans) are  *)
(* instrumentation and are modelled as having no effect.  The Celery       *)
(* result store is modelled as working: a task is PENDING until the worker *)
(* finishes it, then SUCCESS (the body returned) or FAILURE (it raised).   *)
(***************************************************************************)
EXTENDS Integers, Sequences, FiniteSets, TLC

VARIABLES
    tasks,          \* Celery result store: task id (index) -> task record
    pc,             \* position of the analyze request handler
    req_url,        \* request.repo_url of the analyze request
    attempt,        \* loop variable of analyze_repo
    backoff_time,   \* local of analyze_repo
    fetch_task_id,  \* local of analyze_repo
    response,       \* what analyze_repo returned
    sleeps,         \* history: the delays analyze_repo has slept, in order
    checks,         \* history: <<task id, observed state>> of each ready() check
    cache,          \* Redis: key -> [value, expires] or NoEntry
    now,            \* wall clock (seconds)
    fetches,        \* executions of fetch_repo_contents
    listing,        \* the remote API: the listing it serves with a 200
    prev,           \* history: url -> last Snapshot returned for it, or NoSnap
    fetch_replies   \* history: what each POST /fetch-repo call returned

vars == <<tasks, pc, req_url, attempt, backoff_time, fetch_task_id, response,
          sleeps, checks, cache, now, fetches, listing, prev, fetch_replies>>

endpointVars == <<fetch_replies>>

gatewayVars == <<tasks, pc, req_url, attempt, backoff_time, fetch_task_id,
                 response, sleeps, checks>>

(***************************************************************************)
(* Bounds of the model.                                                    *)
(***************************************************************************)
MaxEntries == 3         \* longest listing the remote API answers with
MaxTicks == 2           \* how many times the clock advances
NumFetches == 1         \* executions of fetch_repo_contents running at once
MaxTasks == 2           \* tasks the endpoints enqueue
NumSeeds == 2           \* worker processes, each with its own hash seed
MaxUrlLen == 4          \* longest URL of the exhaustive URL inputs

(***************************************************************************)
(* Program constants.                                                      *)
(***************************************************************************)
CACHE_EXPIRY == 86400
retry_attempts == 3
initial_backoff == 2

TickStep == CACHE_EXPIRY \div 2


(***************************************************************************)
(* Python values.                                                          *)
(***************************************************************************)
PyNone == <<"<None>">>                  \* None where a str is expected
NoEntry == [absent |-> TRUE]            \* no entry under a Redis key
NoSnap == [nosnap |-> TRUE]             \* no Snapshot returned yet
NoResponse == [noresponse |-> TRUE]     \* the handler has not returned
NoResult == [noresult |-> TRUE]         \* the task has no result yet
NoRun == [norun |-> TRUE]               \* the task body has not run yet

Min(a, b) == IF a <= b THEN a ELSE b

\* Mutant of Falsy: only None is refused, the empty string passes.
Falsy_NoneOnly(s) == s = PyNone

\* Truthiness of a str-or-None: None and "" are falsy.
Falsy(s) == s = PyNone \/ s = <<>>

(***************************************************************************)
(* str.strip("/") and str.split("/") on sequences of characters.           *)
(***************************************************************************)
RECURSIVE lstrip(_)
lstrip(s) == IF s # <<>> /\ Head(s) = "/" THEN lstrip(Tail(s)) ELSE s

RECURSIVE rstrip(_)
rstrip(s) ==
    IF s # <<>> /\ s[Len(s)] = "/" THEN rstrip(SubSeq(s, 1, Len(s) - 1)) ELSE s

strip(s) == rstrip(lstrip(s))

RECURSIVE split(_)
split(s) ==
    IF \A i \in 1..Len(s) : s[i] # "/"
    THEN <<s>>
    ELSE LET i == CHOOSE k \in 1..Len(s) :
                      s[k] = "/" /\ \A j \in 1..(k - 1) : s[j] # "/"
         IN  <<SubSeq(s, 1, i - 1)>> \o split(SubSeq(s, i + 1, Len(s)))

\* extract_repo_details: (owner, name) are the last two "/"-separated parts.
extract_repo_details(repo_url) ==
    LET parts == split(strip(repo_url))
    IN  IF Len(parts) >= 2
        THEN <<parts[Len(parts) - 1], parts[Len(parts)]>>
        ELSE <<PyNone, PyNone>>

\* The repository URLs requests are made with.
UrlA == <<"o", "/", "r">>       \* owner "o", name "r"
UrlBad == <<"r">>               \* no owner
Urls == {UrlA, UrlBad}

\* A second spelling of the reference of UrlA: the same owner and name.
UrlASlash == <<"o", "/", "r", "/">>

\* Every URL over a name character and the separator, up to MaxUrlLen.
UrlChars == {"o", "/"}
AllUrls == UNION {[1..n -> UrlChars] : n \in 0..MaxUrlLen}

\* The URL has an owner and a name: with the slashes at its ends removed,
\* it has a last "/" with a character other than "/" on both sides.
HasOwnerAndName(repo_url) ==
    LET s == strip(repo_url)
    IN  \E i \in 2..(Len(s) - 1) :
            /\ s[i] = "/"
            /\ \A j \in (i + 1)..Len(s) : s[j] # "/"
            /\ s[i - 1] # "/"

\* The URLs fetches are made with when the parsing of references is
\* explored: every URL without an owner or a name, and the two spellings of
\* one reference.
UrlInputs == {u \in AllUrls : ~HasOwnerAndName(u)} \cup {UrlA, UrlASlash}

(***************************************************************************)
(* The remote repository API.                                              *)
(***************************************************************************)
\* An entry of a listing: {"path", "type", "download_url"}.
FileEntry(p) == [path |-> p, type |-> "file", download_url |-> <<"raw", p>>]
DirEntry(p) == [path |-> p, type |-> "dir", download_url |-> PyNone]
Entries == {FileEntry("f1"), FileEntry("f2"), DirEntry("d1")}

\* Listings: sequences of entries with distinct paths, in any order.
ListingsUpTo(n) ==
    UNION {{l \in [1..k -> Entries] :
                \A i, j \in 1..k : i # j => l[i].path # l[j].path} : k \in 0..n}
Listings == ListingsUpTo(MaxEntries)

\* What the listing call can answer: a status, or a transport exception.
ListingOutcomes == {"200", "403", "404", "500", "exception"}
\* What a per-file GET can answer.
FileOutcomes == {"200", "404", "exception"}

\* The body served at a download URL (response.text() of a 200 answer).
BodyAt(file_url) == <<"body", file_url[2]>>

(***************************************************************************)
(* fetch_file_content: the text on 200, an error marker string otherwise.  *)
(* A transport exception is not caught here: the result "raise" stands for *)
(* the exception leaving the coroutine.                                    *)
(***************************************************************************)
ErrorMarker(status) == <<"Error fetching file: ", status>>
Raised == <<"raise", "ClientError">>

fetch_file_content(file_url, outcome) ==
    IF outcome = "exception" THEN Raised
    ELSE IF outcome = "200" THEN BodyAt(file_url)
    ELSE ErrorMarker(outcome)

(***************************************************************************)
(* process_repo_files.                                                     *)
(***************************************************************************)
\* Lines 117-119: one retrieval per listing entry of type "file", in
\* listing order; the value is the list of download URLs retrieved.
RetrievalUrls(file_data) ==
    LET files == SelectSeq(file_data, LAMBDA e : e.type = "file")
    IN  [i \in 1..Len(files) |-> files[i].download_url]

\* dict assignment d[k] = v: replaces in place, or appends a new key.
DictSet(d, k, v) ==
    IF \E i \in 1..Len(d) : d[i][1] = k
    THEN [i \in 1..Len(d) |-> IF d[i][1] = k THEN <<k, v>> ELSE d[i]]
    ELSE Append(d, <<k, v>>)

DictKeys(d) == {d[i][1] : i \in 1..Len(d)}
DictGet(d, k) == d[CHOOSE i \in 1..Len(d) : d[i][1] = k][2]

\* Lines 123-124: zip(file_data, file_contents) pairs the i-th listing
\* entry with the i-th gathered content and stops at the shorter list.
RECURSIVE ZipInto(_, _, _, _)
ZipInto(repo_files, file_data, file_contents, i) ==
    IF i > Min(Len(file_data), Len(file_contents))
    THEN repo_files
    ELSE ZipInto(DictSet(repo_files, file_data[i].path, file_contents[i]),
                 file_data, file_contents, i + 1)

process_repo_files(file_data, file_contents) ==
    ZipInto(<<>>, file_data, file_contents, 1)

(***************************************************************************)
(* fetch_repo_contents: values.                                            *)
(***************************************************************************)
cache_key(repo_url) == <<"repo_cache:", repo_url>>

repo_cache(repo_url, repo_files, t) ==
    [repo_url |-> repo_url, files |-> repo_files, timestamp |-> t]

\* json.dumps of the repo_cache dict: the members in insertion order.
json_dumps(v) ==
    <<"{", <<"repo_url", v.repo_url>>, <<"files", v.files>>,
      <<"timestamp", v.timestamp>>, "}">>

\* json.loads of such a text.
json_loads(s) ==
    [repo_url |-> s[2][2], files |-> s[3][2], timestamp |-> s[4][2]]

ErrInvalidUrl == [error |-> "Invalid GitHub repository URL format."]
ErrRateLimit == [error |-> "GitHub API rate limit exceeded. Try again later."]
ErrNotFound == [error |-> "Repository not found. Check if the URL is correct."]
ErrUnexpected(status) ==
    [error |-> "Unexpected error from GitHub API: ", status |-> status]
ErrException == [error |-> "An error occurred while fetching the repository."]

\* Lines 92-98: the answer to a listing status other than 200.
ListingError(status) ==
    IF status = "403" THEN ErrRateLimit
    ELSE IF status = "404" THEN ErrNotFound
    ELSE ErrUnexpected(status)

IsSnapshot(v) == DOMAIN v = {"repo_url", "files", "timestamp"}
IsError(v) == "error" \in DOMAIN v

\* redis_client.get: the stored text, or None once the entry has expired.
cache_get(c, key, t) ==
    IF c[key] # NoEntry /\ t < c[key].expires THEN c[key].value ELSE PyNone

\* Mutant of cache_setex: the entry is stored with half the time to live.
cache_setex_HalfTTL(c, key, value, t) ==
    [c EXCEPT ![key] = [value |-> value, expires |-> t + CACHE_EXPIRY \div 2]]

\* redis_client.setex(key, CACHE_EXPIRY, value)
cache_setex(c, key, value, t) ==
    [c EXCEPT ![key] = [value |-> value, expires |-> t + CACHE_EXPIRY]]

\* redis_client.delete(key)
cache_delete(c, key) == [c EXCEPT ![key] = NoEntry]

(***************************************************************************)
(* analyze_code_task: values.                                              *)
(***************************************************************************)
\* The order of Python strings on the file paths of the model.
PathOrder == <<"d1", "f1", "f2">>
Rank(p) == CHOOSE i \in 1..Len(PathOrder) : PathOrder[i] = p

\* sort_keys=True on an ordered dict: its pairs in the order of their keys.
RECURSIVE InsertSorted(_, _)
InsertSorted(d, kv) ==
    IF d = <<>> THEN <<kv>>
    ELSE IF Rank(kv[1]) < Rank(d[1][1]) THEN <<kv>> \o d
    ELSE <<d[1]>> \o InsertSorted(Tail(d), kv)

RECURSIVE sort_keys(_)
sort_keys(d) ==
    IF d = <<>> THEN <<>> ELSE InsertSorted(sort_keys(Tail(d)), Head(d))

\* json.dumps(repo_data, sort_keys=True): the members in the order of their
\* names, at every level.
json_dumps_sort_keys(v) ==
    <<"{", <<"files", sort_keys(v.files)>>, <<"repo_url", v.repo_url>>,
      <<"timestamp", v.timestamp>>, "}">>

\* hash(text): Python salts the hash of a str with a seed drawn when the
\* interpreter starts, so the value depends on the process computing it.
Seeds == 1..NumSeeds
PyHash(seed, text) == <<"hash", seed, text>>

\* Line 155: f"ai_analysis:{hash(json.dumps(repo_data, sort_keys=True))}"
analysis_cache_key(seed, repo_data) ==
    <<"ai_analysis:", PyHash(seed, json_dumps_sort_keys(repo_data))>>

\* The Snapshots handed to analyze_code_task: the same two files, the
\* mapping built in either order (the order of the listing).
Body1 == BodyAt(<<"raw", "f1">>)
Body2 == BodyAt(<<"raw", "f2">>)
Payloads ==
    {repo_cache(UrlA, <<<<"f1", Body1>>, <<"f2", Body2>>>>, 0),
     repo_cache(UrlA, <<<<"f2", Body2>>, <<"f1", Body1>>>>, 0)}

\* OPENAI_API_KEY = os.getenv("OPENAI_API_KEY"): unset or set.
ApiKeys == {PyNone, <<"sk-key">>}

\* What openai.ChatCompletion.create can do: answer with a message content
\* (possibly the empty string) or raise an OpenAIError with a message.
InferenceOutcomes ==
    {<<"ok", <<"analysis">>>>, <<"ok", <<>>>>, <<"error", <<"rate limit">>>>}

ErrMissingKey == <<"Error: OpenAI API key is missing.">>

(***************************************************************************)
(* The body of analyze_code_task run to completion in a worker process     *)
(* with hash seed `seed` and environment `api_key`, on the cache `c` at    *)
(* time `t`; `outcome` is what the inference call does if it is made.  The *)
(* value is what the body returns, the cache it leaves and what the        *)
(* inference call did ("none" when it was not made).                       *)
(***************************************************************************)
\* Mutant of AnalysisRun: the message of a failed inference call is cached.
AnalysisRun_CachesError(repo_data, c, t, seed, api_key, outcome) ==
    LET key == analysis_cache_key(seed, repo_data)
        cached_result == cache_get(c, key, t)
        analysis_result == outcome[2]
    IN  IF Falsy(api_key)
        THEN [ret |-> ErrMissingKey, cache |-> c, call |-> "none"]
        ELSE IF ~Falsy(cached_result)
        THEN [ret |-> cached_result, cache |-> c, call |-> "none"]
        ELSE IF outcome[1] = "ok"
        THEN [ret |-> analysis_result,
              cache |-> cache_setex(c, key, analysis_result, t),
              call |-> "ok"]
        ELSE [ret |-> <<"Error: ">> \o outcome[2],
              cache |-> cache_setex(c, key, <<"Error: ">> \o outcome[2], t),
              call |-> "error"]

AnalysisRun(repo_data, c, t, seed, api_key, outcome) ==
    LET key == analysis_cache_key(seed, repo_data)
        cached_result == cache_get(c, key, t)
        analysis_result == outcome[2]
    IN  IF Falsy(api_key)
        THEN [ret |-> ErrMissingKey, cache |-> c, call |-> "none"]
        ELSE IF ~Falsy(cached_result)
        THEN [ret |-> cached_result, cache |-> c, call |-> "none"]
        ELSE IF outcome[1] = "ok"
        THEN [ret |-> analysis_result,
              cache |-> cache_setex(c, key, analysis_result, t),
              call |-> "ok"]
        ELSE [ret |-> <<"Error: ">> \o outcome[2], cache |-> c,
              call |-> "error"]

\* The keys the cache is read and written under: those of the fetches of
\* the URLs U, and those of the Analysis Tasks.
FetchKeys(U) == {cache_key(u) : u \in U}
AnalysisKeys == {analysis_cache_key(seed, d) : seed \in Seeds, d \in Payloads}
CacheKeys == FetchKeys(Urls)


\* An execution of fetch_repo_contents that has not started.
InFlight == <<"in flight", "">>
IdleFetch ==
    [pc |-> "idle", repo_url |-> <<>>, http |-> "none", file_data |-> <<>>,
     urls |-> <<>>, file_contents |-> <<>>, ret |-> NoResult,
     listing_calls |-> 0, content_calls |-> 0, pred |-> NoSnap, peers |-> {}]

(***************************************************************************)
(* fetch_repo_contents run to completion, as the Celery task runs it       *)
(* (asyncio.run): the cache `c` and clock `t` it finds, the answer         *)
(* `status` of the listing call, the listing `file_data` a 200 carries and *)
(* the answers `outcomes` of the per-file GETs.  The value is what it      *)
(* returns, the cache it leaves and the listing status it met ("none" when *)
(* it made no listing call).                                               *)
(***************************************************************************)
FetchRun(repo_url, c, t, status, file_data, outcomes) ==
    LET key == cache_key(repo_url)
        cached_data == cache_get(c, key, t)
        details == extract_repo_details(repo_url)
        urls == RetrievalUrls(file_data)
        file_contents ==
            [i \in 1..Len(urls) |-> fetch_file_content(urls[i], outcomes[i])]
        snapshot ==
            repo_cache(repo_url, process_repo_files(file_data, file_contents), t)
    IN  IF cached_data # PyNone
        THEN [ret |-> json_loads(cached_data), cache |-> c, http |-> "none"]
        ELSE IF Falsy(details[1]) \/ Falsy(details[2])
        THEN [ret |-> ErrInvalidUrl, cache |-> c, http |-> "none"]
        ELSE IF status = "exception"
        THEN [ret |-> ErrException, cache |-> c, http |-> status]
        ELSE IF status # "200"
        THEN [ret |-> ListingError(status), cache |-> c, http |-> status]
        ELSE IF \E i \in 1..Len(urls) : file_contents[i] = Raised
        THEN [ret |-> ErrException, cache |-> c, http |-> status]
        ELSE [ret |-> snapshot,
              cache |-> cache_setex(c, key, json_dumps(snapshot), t),
              http |-> status]

(***************************************************************************)
(* The Celery task store.                                                  *)
(***************************************************************************)
\* task.delay(arg): a new task, PENDING, whose id is its index.  The fields
\* http (the answer of the listing call the body made, "none" if it made
\* none) and run (what an Analysis Task's body met) are history.
NewTask(kind, arg) ==
    [kind |-> kind, arg |-> arg, state |-> "PENDING", result |-> NoResult,
     http |-> "none", run |-> NoRun]

\* Mutant of ready: the gateway does not wait for the task to finish.
ready_Always(task) == task.state \in {"PENDING", "SUCCESS", "FAILURE", "REVOKED"}

\* AsyncResult.ready(): the state is one of celery.states.READY_STATES.
ready(task) == task.state \in {"SUCCESS", "FAILURE", "REVOKED"}
\* AsyncResult.failed()
failed(task) == task.state = "FAILURE"

\* The worker runs a queued Fetch Task: fetch_repo_contents_task returns
\* what fetch_repo_contents returns, so the task ends SUCCESS with it.
\* `mark` is what the history field run of the task is left with.
WorkerRunFetchMarked(t, mark) ==
    /\ t \in 1..Len(tasks)
    /\ tasks[t].kind = "fetch"
    /\ tasks[t].state = "PENDING"
    /\ \E status \in ListingOutcomes :
         \E outcomes \in [1..Len(RetrievalUrls(listing)) -> FileOutcomes] :
            LET run == FetchRun(tasks[t].arg, cache, now, status, listing, outcomes)
            IN  /\ tasks' = [tasks EXCEPT ![t].state = "SUCCESS",
                                          ![t].result = run.ret,
                                          ![t].http = run.http,
                                          ![t].run = mark]
                /\ cache' = run.cache
    /\ UNCHANGED <<pc, req_url, attempt, backoff_time, fetch_task_id, response,
                   sleeps, checks, now, fetches, listing, prev, endpointVars>>

WorkerRunFetch(t) == WorkerRunFetchMarked(t, NoRun)

\* The same step, recording whether the gateway was in a backoff sleep
\* when the task finished.
WorkerRunFetchTimed(t) == WorkerRunFetchMarked(t, [asleep |-> pc = "sleep"])

\* The cache store is unreachable: redis_client.get (line 57, outside the
\* try) raises, the task body raises and the task ends FAILURE.
WorkerFailFetch(t) ==
    /\ t \in 1..Len(tasks)
    /\ tasks[t].kind = "fetch"
    /\ tasks[t].state = "PENDING"
    /\ tasks' = [tasks EXCEPT ![t].state = "FAILURE",
                              ![t].result = [exc |-> "redis.ConnectionError"]]
    /\ UNCHANGED <<pc, req_url, attempt, backoff_time, fetch_task_id, response,
                   sleeps, checks, cache, now, fetches, listing, prev, endpointVars>>

(***************************************************************************)
(* analyze_repo (POST /analyze).                                           *)
(***************************************************************************)
RespInProgress ==
    [message |-> "Repository fetching is still in progress. Please check task status."]
RespFetchFailed ==
    [error |-> "Repository fetching failed after multiple attempts. Unable to proceed with analysis."]
RespAnalysisStarted(id) == [task_id |-> id, message |-> "AI analysis started"]

\* Lines 56-58: the request arrives.
AnalyzeBegin(url) ==
    /\ pc = "idle"
    /\ pc' = "loop"
    /\ req_url' = url
    /\ attempt' = 0
    /\ backoff_time' = initial_backoff
    /\ UNCHANGED <<tasks, fetch_task_id, response, sleeps, checks, cache, now,
                   fetches, listing, prev, endpointVars>>

\* Lines 60-63: the loop body starts by enqueuing a Fetch Task.
AnalyzeEnqueue ==
    /\ pc = "loop"
    /\ attempt < retry_attempts
    /\ tasks' = Append(tasks, NewTask("fetch", req_url))
    /\ fetch_task_id' = Len(tasks) + 1
    /\ pc' = "check"
    /\ UNCHANGED <<req_url, attempt, backoff_time, response, sleeps, checks,
                   cache, now, fetches, listing, prev, endpointVars>>

Observe == Append(checks, <<fetch_task_id, tasks[fetch_task_id].state>>)

\* Lines 64-69: ready and failed, attempts remain: sleep, then continue.
AnalyzeCheckFailedRetry ==
    /\ pc = "check"
    /\ ready(tasks[fetch_task_id]) /\ failed(tasks[fetch_task_id])
    /\ attempt < retry_attempts - 1
    /\ checks' = Observe
    /\ sleeps' = Append(sleeps, backoff_time)
    /\ pc' = "sleep"
    /\ UNCHANGED <<tasks, req_url, attempt, backoff_time, fetch_task_id,
                   response, cache, now, fetches, listing, prev, endpointVars>>

\* Mutant of AnalyzeCheckFailedLast: the exhausted failure is reported as
\* still in progress.
AnalyzeCheckFailedLast_InProgress ==
    /\ pc = "check"
    /\ tasks[fetch_task_id].state = "FAILURE"
    /\ ~(attempt < retry_attempts - 1)
    /\ checks' = Append(checks, <<fetch_task_id, tasks[fetch_task_id].state>>)
    /\ response' =
          [message |-> "Repository fetching is still in progress. Please check task status."]
    /\ pc' = "done"
    /\ UNCHANGED <<tasks, req_url, attempt, backoff_time, fetch_task_id,
                   sleeps, cache, now, fetches, listing, prev, endpointVars>>

\* Lines 64-70: ready and failed on the last attempt.
AnalyzeCheckFailedLast ==
    /\ pc = "check"
    /\ ready(tasks[fetch_task_id]) /\ failed(tasks[fetch_task_id])
    /\ ~(attempt < retry_attempts - 1)
    /\ checks' = Observe
    /\ response' = RespFetchFailed
    /\ pc' = "done"
    /\ UNCHANGED <<tasks, req_url, attempt, backoff_time, fetch_task_id,
                   sleeps, cache, now, fetches, listing, prev, endpointVars>>

\* Lines 64-81: ready and not failed: the Analysis Task is enqueued with
\* the Fetch Task's result.
AnalyzeCheckReady ==
    /\ pc = "check"
    /\ ready(tasks[fetch_task_id]) /\ ~failed(tasks[fetch_task_id])
    /\ checks' = Observe
    /\ tasks' = Append(tasks, NewTask("analyze", tasks[fetch_task_id].result))
    /\ response' = RespAnalysisStarted(Len(tasks) + 1)
    /\ pc' = "done"
    /\ UNCHANGED <<req_url, attempt, backoff_time, fetch_task_id, sleeps,
                   cache, now, fetches, listing, prev, endpointVars>>

\* Lines 64, 83: not ready: sleep the current backoff.
AnalyzeCheckNotReady ==
    /\ pc = "check"
    /\ ~ready(tasks[fetch_task_id])
    /\ checks' = Observe
    /\ sleeps' = Append(sleeps, backoff_time)
    /\ pc' = "sleep"
    /\ UNCHANGED <<tasks, req_url, attempt, backoff_time, fetch_task_id,
                   response, cache, now, fetches, listing, prev, endpointVars>>

\* Mutant of AnalyzeWake: the backoff is not doubled.
AnalyzeWake_NoDouble ==
    /\ pc = "sleep"
    /\ attempt' = attempt + 1
    /\ pc' = "loop"
    /\ UNCHANGED <<tasks, req_url, backoff_time, fetch_task_id, response,
                   sleeps, checks, cache, now, fetches, listing, prev, endpointVars>>

\* Lines 68-69 and 84: the sleep ends, the backoff doubles and the loop
\* goes to its next iteration.
AnalyzeWake ==
    /\ pc = "sleep"
    /\ backoff_time' = backoff_time * 2
    /\ attempt' = attempt + 1
    /\ pc' = "loop"
    /\ UNCHANGED <<tasks, req_url, fetch_task_id, response, sleeps, checks,
                   cache, now, fetches, listing, prev, endpointVars>>

\* Line 86: the loop is exhausted.
AnalyzeReturnInProgress ==
    /\ pc = "loop"
    /\ ~(attempt < retry_attempts)
    /\ response' = RespInProgress
    /\ pc' = "done"
    /\ UNCHANGED <<tasks, req_url, attempt, backoff_time, fetch_task_id,
                   sleeps, checks, cache, now, fetches, listing, prev, endpointVars>>

(***************************************************************************)
(* Time passes.                                                            *)
(***************************************************************************)
\* Redis drops an entry when its time to live is over.
Expire(c, t) ==
    [k \in DOMAIN c |->
        IF c[k] # NoEntry /\ t < c[k].expires THEN c[k] ELSE NoEntry]

Tick ==
    /\ now < MaxTicks * TickStep
    /\ now' = now + TickStep
    /\ cache' = Expire(cache, now + TickStep)
    /\ prev' = [u \in DOMAIN prev |->
                  IF prev[u] # NoSnap /\ now + TickStep < prev[u].at + CACHE_EXPIRY
                  THEN prev[u] ELSE NoSnap]
    /\ UNCHANGED <<gatewayVars, fetches, listing, endpointVars>>

(***************************************************************************)
(* Specification of the gateway: one analyze request, the task store and   *)
(* the worker.                                                             *)
(***************************************************************************)

\* The state after start-up: no task, no request, an empty cache over the
\* keys K, no fetch in the slots F, the remote API serving one of the
\* listings L, and the URLs U never fetched.
InitWith(K, U, F, L) ==
    /\ tasks = <<>>
    /\ pc = "idle"
    /\ req_url = UrlA
    /\ attempt = 0
    /\ backoff_time = initial_backoff
    /\ fetch_task_id = 0
    /\ response = NoResponse
    /\ sleeps = <<>>
    /\ checks = <<>>
    /\ cache = [k \in K |-> NoEntry]
    /\ now = 0
    /\ fetches = [f \in F |-> IdleFetch]
    /\ listing \in L
    /\ prev = [u \in U |-> NoSnap]
    /\ fetch_replies = <<>>

Init == InitWith(CacheKeys, Urls, 1..NumFetches, Listings)

Next ==
    \/ \E url \in Urls : AnalyzeBegin(url)
    \/ AnalyzeEnqueue
    \/ AnalyzeCheckFailedRetry
    \/ AnalyzeCheckFailedLast
    \/ AnalyzeCheckReady
    \/ AnalyzeCheckNotReady
    \/ AnalyzeWake
    \/ AnalyzeReturnInProgress
    \/ \E t \in 1..Len(tasks) : WorkerRunFetch(t)
    \/ \E t \in 1..Len(tasks) : WorkerFailFetch(t)
    \/ Tick

Spec == Init /\ [][Next]_vars

(***************************************************************************)
(* Specification of the polling of the gateway: the same steps, with the   *)
(* time each Fetch Task finished recorded and the remote repository        *)
(* serving one file, as in tests/test_repo_manager.py.                     *)
(***************************************************************************)
InitPoll ==
    InitWith(CacheKeys, Urls, 1..NumFetches, {<<FileEntry("f1")>>})

NextPoll ==
    \/ \E url \in Urls : AnalyzeBegin(url)
    \/ AnalyzeEnqueue
    \/ AnalyzeCheckFailedRetry
    \/ AnalyzeCheckFailedLast
    \/ AnalyzeCheckReady
    \/ AnalyzeCheckNotReady
    \/ AnalyzeWake
    \/ AnalyzeReturnInProgress
    \/ \E t \in 1..Len(tasks) : WorkerRunFetchTimed(t)
    \/ \E t \in 1..Len(tasks) : WorkerFailFetch(t)
    \/ Tick

SpecPoll == InitPoll /\ [][NextPoll]_vars


(***************************************************************************)
(* fetch_repo_contents step by step: up to NumFetches executions at a     *)
(* time (Fetch Tasks on the worker pool, or direct calls), one call after  *)
(* another in each slot, all against the shared cache.                     *)
(***************************************************************************)
fetchFrame == <<tasks, pc, req_url, attempt, backoff_time, fetch_task_id,
                response, sleeps, checks, now, listing, endpointVars>>

\* Execution slot f takes a new call when it is free: it has not run yet
\* or its last call has returned (slots are taken in order).
CanStart(f) ==
    /\ fetches[f].pc \in {"idle", "done"}
    /\ (f > 1 => fetches[f - 1].pc # "idle")

\* The executions of the same URL that are under way past the cache check
\* (history, kept in field peers of a call that missed the cache).
Running(repo_url) ==
    {h \in DOMAIN fetches :
        fetches[h].pc \in {"listing", "gather"} /\ fetches[h].repo_url = repo_url}

\* Slot f takes the new call `call`; the call that was in the slot is no
\* longer a peer of any other.
StartIn(f, call) ==
    [h \in DOMAIN fetches |->
        IF h = f THEN call ELSE [fetches[h] EXCEPT !.peers = @ \ {f}]]

\* The Snapshot a fetch of the URL last returned, if its cache entry is
\* still inside the TTL window and was not invalidated since.
Predecessor(repo_url) ==
    IF prev[repo_url] # NoSnap /\ now < prev[repo_url].at + CACHE_EXPIRY
    THEN prev[repo_url]
    ELSE NoSnap

\* Lines 56-61: cache hit.
FetchCacheHit(f, repo_url) ==
    /\ CanStart(f)
    /\ cache_get(cache, cache_key(repo_url), now) # PyNone
    /\ fetches' = StartIn(f,
          [IdleFetch EXCEPT
              !.pc = "done", !.repo_url = repo_url,
              !.pred = Predecessor(repo_url),
              !.ret = json_loads(cache_get(cache, cache_key(repo_url), now))])
    /\ UNCHANGED <<fetchFrame, cache, prev>>

\* Lines 56-67: cache miss and a URL without owner or name.
FetchInvalidUrl(f, repo_url) ==
    /\ CanStart(f)
    /\ cache_get(cache, cache_key(repo_url), now) = PyNone
    /\ \/ Falsy(extract_repo_details(repo_url)[1])
       \/ Falsy(extract_repo_details(repo_url)[2])
    /\ fetches' = StartIn(f,
          [IdleFetch EXCEPT
              !.pc = "done", !.repo_url = repo_url,
              !.pred = Predecessor(repo_url),
              !.ret = ErrInvalidUrl])
    /\ UNCHANGED <<fetchFrame, cache, prev>>

\* Lines 56-75: cache miss, the listing call is issued.
FetchListingCall(f, repo_url) ==
    /\ CanStart(f)
    /\ cache_get(cache, cache_key(repo_url), now) = PyNone
    /\ ~Falsy(extract_repo_details(repo_url)[1])
    /\ ~Falsy(extract_repo_details(repo_url)[2])
    /\ fetches' = StartIn(f,
          [IdleFetch EXCEPT
              !.pc = "listing", !.repo_url = repo_url,
              !.pred = Predecessor(repo_url),
              !.peers = Running(repo_url) \ {f},
              !.listing_calls = 1])
    /\ UNCHANGED <<fetchFrame, cache, prev>>

\* Lines 75-98 and 99-101: the listing call answers with a status other
\* than 200, or raises.
ListingFails(f, status) ==
    /\ fetches[f].pc = "listing"
    /\ status # "200"
    /\ fetches' = [fetches EXCEPT
          ![f].pc = "done",
          ![f].http = status,
          ![f].ret = IF status = "exception" THEN ErrException
                     ELSE ListingError(status)]
    /\ UNCHANGED <<fetchFrame, cache, prev>>

\* Lines 79-81 and 114-121: the listing call answers 200 with the listing;
\* process_repo_files launches one retrieval per file entry, all at once
\* (asyncio.gather), and waits for them.
ListingAnswers(f) ==
    /\ fetches[f].pc = "listing"
    /\ fetches' = [fetches EXCEPT
          ![f].pc = "gather",
          ![f].http = "200",
          ![f].file_data = listing,
          ![f].urls = RetrievalUrls(listing),
          ![f].file_contents =
              [i \in 1..Len(RetrievalUrls(listing)) |-> InFlight],
          ![f].content_calls = Len(RetrievalUrls(listing))]
    /\ UNCHANGED <<fetchFrame, cache, prev>>

\* Lines 139-142: the i-th retrieval gets its answer; gather keeps it at
\* position i whatever the order of completion.
RetrievalReturns(f, i, outcome) ==
    /\ fetches[f].pc = "gather"
    /\ i \in 1..Len(fetches[f].urls)
    /\ fetches[f].file_contents[i] = InFlight
    /\ outcome # "exception"
    /\ fetches' = [fetches EXCEPT
          ![f].file_contents[i] = fetch_file_content(fetches[f].urls[i], outcome)]
    /\ UNCHANGED <<fetchFrame, cache, prev>>

\* Lines 139, 121, 99-101: the i-th retrieval raises (transport error);
\* gather re-raises it to fetch_repo_contents, whose except returns the
\* generic error while the other retrievals are abandoned.
RetrievalRaises(f, i) ==
    /\ fetches[f].pc = "gather"
    /\ i \in 1..Len(fetches[f].urls)
    /\ fetches[f].file_contents[i] = InFlight
    /\ fetches' = [fetches EXCEPT
          ![f].file_contents[i] = fetch_file_content(fetches[f].urls[i], "exception"),
          ![f].pc = "done",
          ![f].ret = ErrException]
    /\ UNCHANGED <<fetchFrame, cache, prev>>

\* Mutant of FetchAssemble: the Snapshot is built, cached and returned
\* without waiting for the retrievals that are still in flight.
FetchAssemble_Eager(f) ==
    /\ fetches[f].pc = "gather"
    /\ LET repo_files ==
               process_repo_files(fetches[f].file_data, fetches[f].file_contents)
           snapshot == repo_cache(fetches[f].repo_url, repo_files, now)
       IN  /\ cache' = cache_setex(cache, cache_key(fetches[f].repo_url),
                                   json_dumps(snapshot), now)
           /\ fetches' = [fetches EXCEPT ![f].pc = "done", ![f].ret = snapshot]
           /\ prev' = [prev EXCEPT ![fetches[f].repo_url] =
                          [snap |-> snapshot, at |-> now]]
    /\ UNCHANGED fetchFrame

\* Lines 121-126 and 84-91: every retrieval has returned; the files
\* mapping is built, the Snapshot is cached and returned.
FetchAssemble(f) ==
    /\ fetches[f].pc = "gather"
    /\ \A i \in 1..Len(fetches[f].urls) : fetches[f].file_contents[i] # InFlight
    /\ LET repo_files ==
               process_repo_files(fetches[f].file_data, fetches[f].file_contents)
           snapshot == repo_cache(fetches[f].repo_url, repo_files, now)
       IN  /\ cache' = cache_setex(cache, cache_key(fetches[f].repo_url),
                                   json_dumps(snapshot), now)
           /\ fetches' = [fetches EXCEPT ![f].pc = "done", ![f].ret = snapshot]
           /\ prev' = [prev EXCEPT ![fetches[f].repo_url] =
                          [snap |-> snapshot, at |-> now]]
    /\ UNCHANGED fetchFrame

\* invalidate_cache
invalidate_cache(repo_url) ==
    /\ cache' = cache_delete(cache, cache_key(repo_url))
    /\ prev' = [prev EXCEPT ![repo_url] = NoSnap]
    /\ UNCHANGED <<fetchFrame, fetches>>

\* The steps of the executions in the slots F, called with the URLs U.
FetchSteps(F, U) ==
    \/ \E f \in F, u \in U : FetchCacheHit(f, u)
    \/ \E f \in F, u \in U : FetchInvalidUrl(f, u)
    \/ \E f \in F, u \in U : FetchListingCall(f, u)
    \/ \E f \in F, st \in ListingOutcomes : ListingFails(f, st)
    \/ \E f \in F : ListingAnswers(f)
    \/ \E f \in F, i \in 1..MaxEntries, o \in FileOutcomes :
          RetrievalReturns(f, i, o)
    \/ \E f \in F, i \in 1..MaxEntries : RetrievalRaises(f, i)
    \/ \E f \in F : FetchAssemble(f)
    \/ \E u \in U : invalidate_cache(u)
    \/ Tick

NextFetch == FetchSteps(1..NumFetches, Urls)

SpecFetch == Init /\ [][NextFetch]_vars

(***************************************************************************)
(* Specification of the parsing of references: fetch_repo_contents called  *)
(* with every URL of UrlInputs, one call at a time.                        *)
(***************************************************************************)
\* The remote repository serves one file, as in tests/test_repo_manager.py.
OneFile == {<<FileEntry("f1")>>}

InitUrl == InitWith(FetchKeys(UrlInputs), UrlInputs, 1..NumFetches, OneFile)

NextUrl == FetchSteps({1}, UrlInputs)

SpecUrl == InitUrl /\ [][NextUrl]_vars

(***************************************************************************)
(* Specification of concurrent fetches: one execution slot more than       *)
(* SpecFetch has, so that two calls overlap.                               *)
(***************************************************************************)
RaceSlots == 1..(NumFetches + 1)

InitRace == InitWith(CacheKeys, Urls, RaceSlots, Listings)

NextRace == FetchSteps(RaceSlots, Urls)

SpecRace == InitRace /\ [][NextRace]_vars

(***************************************************************************)
(* Specification of the join of the retrievals: two execution slots, so    *)
(* that a fetch gathers its retrievals while another fetch of the same URL *)
(* runs.                                                                   *)
(***************************************************************************)
JoinSlots == {1, 2}

InitJoin == InitWith(CacheKeys, Urls, JoinSlots, Listings)

NextJoin == FetchSteps(JoinSlots, Urls)

SpecJoin == InitJoin /\ [][NextJoin]_vars

(***************************************************************************)
(* Specification of the task queue: the fetch-repo and task-status         *)
(* endpoints, the enqueuing of Analysis Tasks, and the worker running      *)
(* Fetch Tasks and Analysis Tasks.                                         *)
(***************************************************************************)
taskFrame ==
    <<pc, req_url, attempt, backoff_time, fetch_task_id, response, sleeps,
      checks, now, fetches, listing, prev>>

\* Mutant of fetch_repository: a call for a URL that already has a Fetch
\* Task answers with that task's handle and enqueues nothing.
fetch_repository_Reuse(repo_url) ==
    LET same == {t \in 1..Len(tasks) :
                    tasks[t].kind = "fetch" /\ tasks[t].arg = repo_url}
        id == IF same = {} THEN Len(tasks) + 1 ELSE CHOOSE t \in same : TRUE
    IN  /\ Len(tasks) < MaxTasks
        /\ Len(fetch_replies) < MaxTasks
        /\ tasks' = IF same = {} THEN Append(tasks, NewTask("fetch", repo_url))
                    ELSE tasks
        /\ fetch_replies' =
              Append(fetch_replies,
                     [repo_url |-> repo_url, task_id |-> id,
                      message |-> "Fetching repository in background",
                      cached |-> cache_get(cache, cache_key(repo_url), now) # PyNone])
        /\ UNCHANGED <<taskFrame, cache>>

\* fetch_repository (POST /fetch-repo): enqueue and answer at once.  The
\* field `cached` of the recorded reply is history: whether the cache held
\* a Snapshot for the URL when the call was made.
fetch_repository(repo_url) ==
    /\ Len(tasks) < MaxTasks
    /\ tasks' = Append(tasks, NewTask("fetch", repo_url))
    /\ fetch_replies' =
          Append(fetch_replies,
                 [repo_url |-> repo_url, task_id |-> Len(tasks) + 1,
                  message |-> "Fetching repository in background",
                  cached |-> cache_get(cache, cache_key(repo_url), now) # PyNone])
    /\ UNCHANGED <<taskFrame, cache>>

\* analyze_code_task.delay(repo_data), endpoints.py line 80.
AnalysisEnqueued(repo_data) ==
    /\ Len(tasks) < MaxTasks
    /\ tasks' = Append(tasks, NewTask("analyze", repo_data))
    /\ UNCHANGED <<taskFrame, cache, endpointVars>>

\* A worker process runs an Analysis Task.  The body returns on every path
\* modelled here, so the task ends SUCCESS with the returned value.
WorkerRunAnalysis(t) ==
    /\ t \in 1..Len(tasks)
    /\ tasks[t].kind = "analyze"
    /\ tasks[t].state = "PENDING"
    /\ \E seed \in Seeds, api_key \in ApiKeys, outcome \in InferenceOutcomes :
          LET r == AnalysisRun(tasks[t].arg, cache, now, seed, api_key, outcome)
              key == analysis_cache_key(seed, tasks[t].arg)
              present == cache[key] # NoEntry /\ now < cache[key].expires
          IN  /\ tasks' = [tasks EXCEPT
                    ![t].state = "SUCCESS",
                    ![t].result = r.ret,
                    ![t].http = r.call,
                    ![t].run = [api_key |-> api_key, key |-> key,
                                present |-> present,
                                value |-> IF present THEN cache[key].value
                                          ELSE PyNone,
                                answer |-> IF r.call = "none" THEN <<"none">>
                                           ELSE outcome]]
              /\ cache' = r.cache
    /\ UNCHANGED <<taskFrame, endpointVars>>

\* AsyncResult(task_id): the task the result backend knows under the id.
\* An id the backend has no record of reads as a task in state PENDING.
AsyncResult(task_id) ==
    IF task_id \in 1..Len(tasks) THEN tasks[task_id]
    ELSE NewTask("unknown", PyNone)

\* Lines 106-117: the answer built from the task's state and result.
StatusOf(task_id, task_result) ==
    IF task_result.state = "PENDING"
    THEN [task_id |-> task_id, status |-> "PENDING", result |-> PyNone]
    ELSE IF task_result.state = "FAILURE"
    THEN [task_id |-> task_id, status |-> "FAILURE",
          result |-> <<"str", task_result.result>>]
    ELSE [task_id |-> task_id, status |-> task_result.state,
          result |-> task_result.result]

\* get_task_status (GET /task-status/{task_id}): the handler reads the task
\* store and changes nothing, so it is the function from the id and the
\* state of the store to the answer.
get_task_status(task_id) == StatusOf(task_id, AsyncResult(task_id))

InitTasks ==
    InitWith(CacheKeys \cup AnalysisKeys, Urls, 1..NumFetches, OneFile)

NextTasks ==
    \/ \E u \in Urls : fetch_repository(u)
    \/ \E d \in Payloads : AnalysisEnqueued(d)
    \/ \E t \in 1..Len(tasks) : WorkerRunFetch(t)
    \/ \E t \in 1..Len(tasks) : WorkerFailFetch(t)
    \/ \E t \in 1..Len(tasks) : WorkerRunAnalysis(t)
    \/ Tick

SpecTasks == InitTasks /\ [][NextTasks]_vars

(***************************************************************************)
(* Claims about the gateway (checked under Spec).                          *)
(***************************************************************************)
FetchTasks == {t \in 1..Len(tasks) : tasks[t].kind = "fetch"}
AnalysisTasks == {t \in 1..Len(tasks) : tasks[t].kind = "analyze"}
Observed(i) == checks[i][2]
NoCheckSucceeded == \A i \in 1..Len(checks) : Observed(i) # "SUCCESS"

\* C1: when every state check of the request finds the Fetch Task not
\* ready, the gateway makes exactly 3 checks, sleeps exactly the delays 2
\* and 4 (between the checks) and returns "still in progress"; there is
\* never a 4th check nor a further sleep before the return.
C1_RetryBound ==
    /\ Len(checks) <= retry_attempts
    /\ (pc = "done" /\ \A i \in 1..Len(checks) : Observed(i) = "PENDING")
          => /\ Len(checks) = retry_attempts
             /\ sleeps = <<2, 4>>
             /\ response = RespInProgress

\* C2: one analyze request enqueues exactly one Fetch Task, before the
\* retry loop, and every state check reads that same task.
C2_SingleEnqueue ==
    /\ Cardinality(FetchTasks) <= 1
    /\ \A i \in 1..Len(checks) : checks[i][1] = 1

\* C3: a Fetch Task whose listing call answers 404 ends FAILURE carrying
\* the not-found error, and a request all of whose fetches met a 404
\* returns the error response and enqueues no Analysis Task.
C3_FailurePropagation ==
    /\ \A t \in FetchTasks :
          tasks[t].http = "404"
             => tasks[t].state = "FAILURE" /\ tasks[t].result = ErrNotFound
    /\ (pc = "done" /\ \A t \in FetchTasks : tasks[t].http = "404")
          => response = RespFetchFailed /\ AnalysisTasks = {}

C5_FailedBranch ==
    /\ backoff_time = initial_backoff * 2 ^ attempt
    /\ \A i \in 1..Len(checks) :
          Observed(i) = "FAILURE" =>
             IF i < retry_attempts
             THEN /\ Len(sleeps) >= i
                  /\ sleeps[i] = initial_backoff * 2 ^ (i - 1)
                  /\ (pc = "done" => Len(checks) > i)
                  /\ (i = Len(checks) =>
                         AnalysisTasks = {} /\ response = NoResponse)
             ELSE /\ pc = "done"
                  /\ response = RespFetchFailed
                  /\ Len(sleeps) = retry_attempts - 1
                  /\ AnalysisTasks = {}

\* Witness of C5: a failed first check was slept on and checked again,
\* and the last check failed too.
C5_Witness ==
    /\ Len(checks) = retry_attempts
    /\ Observed(1) = "FAILURE"
    /\ Observed(retry_attempts) = "FAILURE"
    /\ pc = "done"

\* C6 as stated: whenever all 3 attempts elapse without a check observing
\* SUCCESS, the response is the in-progress status, not an error.
C6_Original ==
    (pc = "done" /\ NoCheckSucceeded) => response = RespInProgress

\* C6 amended: when all 3 attempts elapse without a check observing
\* SUCCESS, the response is the in-progress status if the last check found
\* the task not ready, and the "fetch failed" error if it found it FAILURE.
C6_InProgressUnlessLastFailed ==
    (pc = "done" /\ NoCheckSucceeded) =>
        /\ Len(checks) = retry_attempts
        /\ (Observed(retry_attempts) = "PENDING" => response = RespInProgress)
        /\ (Observed(retry_attempts) = "FAILURE" => response = RespFetchFailed)
        /\ response \in {RespInProgress, RespFetchFailed}

\* Witness of C6: earlier checks failed, the last one found the task
\* pending, and the request answered "in progress".
C6_Witness ==
    /\ pc = "done"
    /\ Len(checks) = retry_attempts
    /\ Observed(1) = "FAILURE"
    /\ Observed(retry_attempts) = "PENDING"
    /\ response = RespInProgress


(***************************************************************************)
(* Claims about fetch (checked under SpecFetch).                           *)
(***************************************************************************)
Returned(f) == fetches[f].pc = "done"
FileIndexes == {i \in 1..Len(listing) : listing[i].type = "file"}
FilePaths == {listing[i].path : i \in FileIndexes}
\* The position among the retrievals of the listing's i-th entry (a file).
RetrievalOf(i) == Cardinality({j \in FileIndexes : j <= i})

\* C7: the files mapping of every Snapshot fetch returns for a listing
\* answered with 200 has exactly the paths of the listing's entries of
\* type "file" as its keys.
C7_KeysAreFilePaths ==
    \A f \in 1..NumFetches :
        (Returned(f) /\ IsSnapshot(fetches[f].ret))
            => DictKeys(fetches[f].ret.files) = FilePaths

\* C8: every path of a returned Snapshot's files mapping holds the result
\* of the retrieval issued for the download URL of the listing entry with
\* that path.
C8_ContentOfOwnUrl ==
    \A f \in 1..NumFetches :
        (Returned(f) /\ IsSnapshot(fetches[f].ret)) =>
            \A p \in DictKeys(fetches[f].ret.files) :
                \E i \in FileIndexes :
                    /\ listing[i].path = p
                    /\ DictGet(fetches[f].ret.files, p) \in
                          {fetch_file_content(listing[i].download_url, o) :
                               o \in FileOutcomes \ {"exception"}}

\* C9: whenever the listing call answered 200, fetch returns a Snapshot in
\* which every file holds what its own retrieval produced (the content, or
\* the error marker of a failed retrieval); fetch returns an error only
\* when the listing call itself failed (or was never made).
C9_PerFileFailuresAbsorbed ==
    \A f \in 1..NumFetches :
        Returned(f) =>
            /\ fetches[f].http = "200" =>
                  /\ IsSnapshot(fetches[f].ret)
                  /\ \A i \in FileIndexes :
                        /\ listing[i].path \in DictKeys(fetches[f].ret.files)
                        /\ DictGet(fetches[f].ret.files, listing[i].path) =
                              IF fetches[f].file_contents[RetrievalOf(i)] = Raised
                              THEN ErrorMarker("exception")
                              ELSE fetches[f].file_contents[RetrievalOf(i)]
            /\ IsError(fetches[f].ret) => fetches[f].http # "200"

Ran(t) == tasks[t].kind = "analyze" /\ tasks[t].state # "PENDING"

\* C11: whenever the cache holds a present, non-expired entry under an
\* Analysis Task's key when the task runs, the task finishes with exactly
\* that cached value and makes no inference call, whatever the cached value
\* and the configuration of the worker.
C11_CacheHitIsTerminal ==
    \A t \in 1..Len(tasks) :
        (Ran(t) /\ tasks[t].run.present)
            => /\ tasks[t].result = tasks[t].run.value
               /\ tasks[t].http = "none"

Finishes(t) == tasks[t].state = "PENDING" /\ tasks'[t].state # "PENDING"

\* A Fetch Task ends without a Snapshot: the reference did not parse, the
\* listing call failed, a retrieval raised, or the task itself failed.
FetchFailed(task) ==
    /\ task.kind = "fetch"
    /\ task.state = "FAILURE" \/ IsError(task.result)
\* An Analysis Task's inference call raised.
InferenceFailed(task) == task.kind = "analyze" /\ task.http = "error"

\* A Fetch Task ends after a successful fetch, its Snapshot stored under key.
FetchWrote(task, key) ==
    /\ task.kind = "fetch" /\ task.state = "SUCCESS" /\ task.http = "200"
    /\ IsSnapshot(task.result)
    /\ key = cache_key(task.arg)
    /\ cache'[key].value = json_dumps(task.result)
\* An Analysis Task ends after a successful inference call, the answer
\* stored under key.
AnalysisWrote(task, key) ==
    /\ task.kind = "analyze" /\ task.state = "SUCCESS" /\ task.http = "ok"
    /\ key = task.run.key
    /\ cache'[key].value = task.result

\* C12: nothing is cached on failure.  A step in which a Fetch Task ends
\* without a Snapshot or an Analysis Task ends with a failed inference call
\* leaves the cache as it was, and every step that stores an entry is the
\* end of a task after a successful fetch or a successful inference call,
\* storing that task's value under that task's key.
C12_NothingCachedOnFailure ==
    [][/\ \A t \in 1..Len(tasks) :
             (Finishes(t) /\ (FetchFailed(tasks'[t]) \/ InferenceFailed(tasks'[t])))
                 => cache' = cache
       /\ \A key \in DOMAIN cache :
             (cache'[key] # cache[key] /\ cache'[key] # NoEntry)
                 => \E t \in 1..Len(tasks) :
                       /\ Finishes(t)
                       /\ FetchWrote(tasks'[t], key) \/ AnalysisWrote(tasks'[t], key)]_vars

\* Witness of C12: a Fetch Task whose listing call was answered 404 and an
\* Analysis Task whose inference call raised have both ended, and the cache
\* holds no entry.
C12_Witness ==
    /\ \E t \in 1..Len(tasks) : FetchFailed(tasks[t]) /\ tasks[t].http = "404"
    /\ \E t \in 1..Len(tasks) : InferenceFailed(tasks[t])
    /\ \A key \in DOMAIN cache : cache[key] = NoEntry

\* Two Snapshots with identical content: the same files with the same
\* bytes, whatever the order the files mapping was built in.
SameContent(a, b) ==
    /\ a.repo_url = b.repo_url
    /\ a.timestamp = b.timestamp
    /\ {a.files[i] : i \in 1..Len(a.files)} = {b.files[i] : i \in 1..Len(b.files)}
KeyComputed(t) == Ran(t) /\ ~Falsy(tasks[t].run.api_key)

\* C13: two Analysis Task executions given Snapshots with identical content
\* compute the same analysis cache key, whatever the order the files
\* mapping was built in and whichever execution computes the key.
C13_KeyDeterminism ==
    \A a, b \in 1..Len(tasks) :
        (KeyComputed(a) /\ KeyComputed(b) /\ SameContent(tasks[a].arg, tasks[b].arg))
            => tasks[a].run.key = tasks[b].run.key

\* The handles a lookup can be made with: those of the tasks enqueued so
\* far, and handles no enqueue has returned.
Handles == 1..(MaxTasks + 1)
Enqueued(task_id) == task_id \in 1..Len(tasks)

\* C15: a task-status lookup on a handle that no enqueue ever returned
\* answers with a "not found" status of its own, which is none of the
\* statuses reported for a pending, a failed and a succeeded task.
C15_UnknownHandleNotFound ==
    \A task_id \in Handles :
        ~Enqueued(task_id) =>
            /\ get_task_status(task_id).status \notin {"PENDING", "FAILURE", "SUCCESS"}
            /\ \A t \in 1..Len(tasks) :
                  get_task_status(task_id).status # get_task_status(t).status

\* C16: when the inference call of an Analysis Task fails, the task ends in
\* the Failed state with the inference error's message, verbatim, as its
\* result, and a task-status lookup on its handle reports a failed task.
C16_InferenceFailureFailsTask ==
    \A t \in 1..Len(tasks) :
        (Ran(t) /\ InferenceFailed(tasks[t]))
            => /\ tasks[t].state = "FAILURE"
               /\ tasks[t].result = tasks[t].run.answer[2]
               /\ get_task_status(t).status = "FAILURE"

\* C18: every call of the fetch-repo endpoint enqueues exactly one new Fetch
\* Task and answers with its handle while the task is still pending; the
\* handles of two calls are distinct, also for the same URL and also when
\* the Snapshot is already cached.
C18_EnqueuePerCall ==
    /\ [](/\ Cardinality({t \in 1..Len(tasks) : tasks[t].kind = "fetch"})
               = Len(fetch_replies)
          /\ \A i \in 1..Len(fetch_replies) :
                /\ Enqueued(fetch_replies[i].task_id)
                /\ tasks[fetch_replies[i].task_id].kind = "fetch"
                /\ tasks[fetch_replies[i].task_id].arg = fetch_replies[i].repo_url
          /\ \A i, j \in 1..Len(fetch_replies) :
                i # j => fetch_replies[i].task_id # fetch_replies[j].task_id)
    /\ [][Len(fetch_replies') > Len(fetch_replies) =>
            LET reply == fetch_replies'[Len(fetch_replies')]
            IN  /\ Len(fetch_replies') = Len(fetch_replies) + 1
                /\ Len(tasks') = Len(tasks) + 1
                /\ ~Enqueued(reply.task_id)
                /\ tasks'[reply.task_id].state = "PENDING"]_vars

\* Witness of C18: two calls with the same URL were answered, the second
\* while the Snapshot of the URL was cached.
C18_Witness ==
    \E i, j \in 1..Len(fetch_replies) :
        /\ i < j
        /\ fetch_replies[i].repo_url = fetch_replies[j].repo_url
        /\ fetch_replies[j].cached
        /\ fetch_replies[i].task_id # fetch_replies[j].task_id

(***************************************************************************)
(* Claims about the parsing of references (checked under SpecUrl).         *)
(***************************************************************************)
Cached(repo_url) == cache_get(cache, cache_key(repo_url), now) # PyNone
SameReference(u, v) ==
    /\ extract_repo_details(u) = extract_repo_details(v)
    /\ ~Falsy(extract_repo_details(u)[1])
    /\ ~Falsy(extract_repo_details(u)[2])

\* C14: the fetch cache key is a function of the parsed reference: two URLs
\* that parse to the same (owner, name) use the same cache key, so while a
\* Snapshot is cached through one of them a fetch of the other is a hit.
C14_KeyOfReference ==
    \A u, v \in UrlInputs :
        (SameReference(u, v) /\ Cached(u))
            => /\ cache_key(u) = cache_key(v)
               /\ Cached(v)

\* C17: a fetch of a URL that has no owner or no name returns the
\* invalid-reference error at once, having issued no listing call and no
\* content call.
C17_InvalidUrlFailsFast ==
    \A f \in DOMAIN fetches :
        (fetches[f].pc # "idle" /\ ~HasOwnerAndName(fetches[f].repo_url))
            => /\ fetches[f].pc = "done"
               /\ fetches[f].ret = ErrInvalidUrl
               /\ fetches[f].listing_calls = 0
               /\ fetches[f].content_calls = 0

\* Witness of C17: a fetch of a URL with two parts, the owner part empty,
\* has returned.
C17_Witness ==
    \E f \in DOMAIN fetches :
        /\ fetches[f].pc = "done"
        /\ ~HasOwnerAndName(fetches[f].repo_url)
        /\ Len(split(strip(fetches[f].repo_url))) >= 2
        /\ fetches[f].ret = ErrInvalidUrl

(***************************************************************************)
(* Claims about concurrent fetches (checked under SpecRace).               *)
(***************************************************************************)
\* The call in slot f missed the cache, fetched successfully and wrote the
\* Snapshot it returned under the key of its URL.
Wrote(f) ==
    /\ fetches[f].pc = "done"
    /\ fetches[f].http = "200"
    /\ IsSnapshot(fetches[f].ret)

\* C19: when two fetches of the same URL run concurrently, both miss the
\* cache and both fetch successfully, the two values they write under the
\* shared cache key are equal.
C19_RaceWritesEqual ==
    \A f, g \in DOMAIN fetches :
        (f \in fetches[g].peers /\ Wrote(f) /\ Wrote(g))
            => json_dumps(fetches[f].ret) = json_dumps(fetches[g].ret)

(***************************************************************************)
(* Claims about the retrievals of one fetch (checked under SpecFetch).     *)
(***************************************************************************)
\* The per-file retrievals of the call in slot f that are in flight.
InFlightCount(f) ==
    IF fetches[f].pc = "gather"
    THEN Cardinality({i \in 1..Len(fetches[f].file_contents) :
                         fetches[f].file_contents[i] = InFlight})
    ELSE 0

\* The most file entries a listing of the model has.
NumFileEntries == Cardinality({e \in Entries : e.type = "file"})

\* C20: during one fetch the number of per-file retrievals in flight at the
\* same time never exceeds a maximum that does not grow with the listing:
\* some maximum below the number of file entries a listing can have is
\* never exceeded.
C20_InFlightBounded ==
    \E max \in 1..(NumFileEntries - 1) :
        \A f \in 1..NumFetches : InFlightCount(f) <= max

(***************************************************************************)
(* Claims about a fetch that succeeds during a backoff sleep (checked      *)
(* under SpecPoll).                                                        *)
(***************************************************************************)
\* A Fetch Task the request enqueued reached Succeeded while the gateway
\* was in one of its backoff sleeps.
SucceededAsleep ==
    \E t \in FetchTasks : tasks[t].state = "SUCCESS" /\ tasks[t].run.asleep

\* C21: if a Fetch Task enqueued for the analyze request reaches Succeeded
\* while the gateway is in a backoff sleep, the next state check observes
\* Succeeded and the request returns an Analysis Task handle.
C21_SuccessSeenByNextCheck ==
    [][(pc = "check" /\ Len(checks') = Len(checks) + 1 /\ SucceededAsleep)
          => /\ checks'[Len(checks')][2] = "SUCCESS"
             /\ pc' = "done"
             /\ response' = RespAnalysisStarted(Len(tasks) + 1)]_vars

(***************************************************************************)
(* Claims about the join of the retrievals of one fetch (checked under     *)
(* SpecJoin).                                                              *)
(***************************************************************************)
\* The retrievals the call in slot f launched that have not returned.
Unreturned(f) ==
    {i \in 1..Len(fetches[f].file_contents) :
        fetches[f].file_contents[i] = InFlight}

\* The call in slot f is waiting for a retrieval it launched.
Gathering(f) == fetches[f].pc = "gather" /\ Unreturned(f) # {}

\* The cache holds a live entry for the reference of the call in slot f.
EntryExists(f) ==
    cache_get(cache, cache_key(fetches[f].repo_url), now) # PyNone

\* C22 as stated: within one fetch the Snapshot is written and returned only
\* after every retrieval the fetch launched has completed, so that no state
\* is reachable in which the cache entry for the reference exists while a
\* retrieval of the same fetch is still in flight.
C22_NoEntryWhileInFlight ==
    \A f \in DOMAIN fetches : Gathering(f) => ~EntryExists(f)

\* The step writes the cache entry of key k.
Writes(k) == cache'[k] # cache[k] /\ cache'[k] # NoEntry

\* The step is the call in slot f returning a Snapshot it fetched.
ReturnsSnapshot(f) ==
    /\ fetches[f].pc = "gather"
    /\ fetches'[f].pc = "done"
    /\ IsSnapshot(fetches'[f].ret)

\* C22, amended: a fetch writes its Snapshot to the cache and returns it
\* only after every retrieval that same fetch launched has completed; every
\* write of a cache entry is made by a fetch of that key none of whose
\* retrievals is in flight, in the step in which it returns the Snapshot
\* written.  (The entry of the reference may exist while a retrieval is in
\* flight when another fetch of the same reference wrote it.)
C22_WriteAfterJoin ==
    [][/\ \A k \in DOMAIN cache :
              Writes(k) =>
                 \E f \in DOMAIN fetches :
                    /\ ReturnsSnapshot(f)
                    /\ Unreturned(f) = {}
                    /\ cache_key(fetches[f].repo_url) = k
                    /\ cache'[k].value = json_dumps(fetches'[f].ret)
       /\ \A f \in DOMAIN fetches :
              ReturnsSnapshot(f) =>
                 /\ Unreturned(f) = {}
                 /\ cache'[cache_key(fetches[f].repo_url)].value
                       = json_dumps(fetches'[f].ret)]_vars

\* Witness of C22: a fetch that launched two retrievals has joined them,
\* written its Snapshot and returned it, while another fetch of the same
\* URL still waits for a retrieval of its own.
C22_Witness ==
    \E f, g \in DOMAIN fetches :
        /\ Wrote(f)
        /\ Len(fetches[f].urls) = 2
        /\ Unreturned(f) = {}
        /\ fetches[g].repo_url = fetches[f].repo_url
        /\ Gathering(g)
        /\ EntryExists(f)
        /\ json_loads(cache_get(cache, cache_key(fetches[f].repo_url), now))
              = fetches[f].ret

=============================================================================
